---- MODULE Spec2Model ----
(***************************************************************************)
(* Model of src/api/typings.ts: the dependency-typings endpoint.           *)
(*                                                                         *)
(* Strings are sequences of tokens.  A token is one character ("@", "/",   *)
(* "a", "1") or an indivisible chunk that holds none of the characters the *)
(* code looks for ("lodash", "react-scripts", "%40", "-bar", ...).         *)
(*                                                                         *)
(* Four specifications share the variables:                                *)
(*   Spec / FairSpec  the request handler, two requests on one event loop  *)
(*   SpecParse        getDependencyAndVersion on bounded query strings     *)
(*   SpecClean        cleanFiles on bounded file mappings                  *)
(*   SpecWalk         readDirectory on a staging tree with symbolic links  *)
(***************************************************************************)
EXTENDS Integers, Sequences, FiniteSets, TLC

VARIABLES
    \* ---- request handler (default export, downloadDependencyTypings) ----
    pc,                 \* per request: position in the handler
    depQuery,           \* per request: the parsed query parameter
    dependencyLocation, \* per request: staging identifier, NoId before it exists
    files,              \* per request: mapping returned by downloadDependencyTypings
    result,             \* per request: dropFiles' accumulator
    index,              \* per request: dropFiles' index
    response,           \* per request: what res.statusCode / res.end were given
    cleanupCount,       \* per request: number of rimraf.sync calls
    installerInvoked,   \* per request: exec() was called
    failure,            \* per request: which fault the request met
    staged,             \* identifiers of the directories that exist under /tmp
    \* ---- getDependencyAndVersion ----
    depString, parsed,
    \* ---- cleanFiles ----
    rawFiles, rootPath, cleaned,
    \* ---- readDirectory ----
    links, todo, readPaths, walkStatus

hvars == <<pc, depQuery, dependencyLocation, files, result, index, response,
           cleanupCount, installerInvoked, failure, staged>>
pvars == <<depString, parsed>>
cvars == <<rawFiles, rootPath, cleaned>>
wvars == <<links, todo, readPaths, walkStatus>>
vars == <<hvars, pvars, cvars, wvars>>

(***************************************************************************)
(* Bounds of the model.                                                    *)
(***************************************************************************)
MaxRand == 2        \* values Math.random() * 100000 is drawn from: 0 .. MaxRand-1
MaxFiles == 2       \* entries of a mapping handed to the packager
HashRange == 3      \* values of hash-sum
MaxLen == 5         \* tokens of a query string given to the parser
MaxSymlinks == 2    \* symbolic links the OS resolves in one path before ELOOP

(***************************************************************************)
(* String helpers (JavaScript String methods on token sequences).          *)
(***************************************************************************)
startsWith(s, p) ==
    Len(p) <= Len(s) /\ SubSeq(s, 1, Len(p)) = p

endsWith(s, p) ==
    Len(p) <= Len(s) /\ SubSeq(s, Len(s) - Len(p) + 1, Len(s)) = p

\* String.prototype.indexOf, 1-based; 0 when absent
indexOf(s, p) ==
    LET hits == { i \in 1..(Len(s) - Len(p) + 1) : SubSeq(s, i, i + Len(p) - 1) = p }
    IN  IF hits = {} THEN 0 ELSE CHOOSE i \in hits : \A j \in hits : i <= j

\* String.prototype.replace(p, "") with a string pattern: the first occurrence only
replaceFirst(s, p) ==
    LET i == indexOf(s, p)
    IN  IF i = 0 THEN s
        ELSE SubSeq(s, 1, i - 1) \o SubSeq(s, i + Len(p), Len(s))

RECURSIVE split(_, _)
\* String.prototype.split(sep): always at least one part, parts may be empty
split(s, sep) ==
    LET i == indexOf(s, <<sep>>)
    IN  IF i = 0 THEN <<s>>
        ELSE <<SubSeq(s, 1, i - 1)>> \o split(SubSeq(s, i + 1, Len(s)), sep)

IsDigit(t) == t \in {"0", "1", "2"}

\* decodeURIComponent: an escape sequence becomes the character it encodes
decodeURIComponent(s) ==
    [i \in 1..Len(s) |-> IF s[i] = "%40" THEN "@" ELSE s[i]]

(***************************************************************************)
(* Query parser, lines 16-48.                                              *)
(***************************************************************************)
\* depQuery.replace(/(?<!^)@.*/, ""): cut at the first "@" that is not at position 0
removeVersion(depQuery_) ==
    LET ats == { i \in 2..Len(depQuery_) : depQuery_[i] = "@" }
    IN  IF ats = {} THEN depQuery_
        ELSE SubSeq(depQuery_, 1, (CHOOSE i \in ats : \A j \in ats : i <= j) - 1)

\* Array.prototype.shift() used in a template string: "undefined" when empty
shifted(parts) == IF parts = <<>> THEN <<"undefined">> ELSE Head(parts)

rest(parts) == IF parts = <<>> THEN <<>> ELSE Tail(parts)

getDependencyName(path) ==
    LET dependencyParts == split(removeVersion(path), "/")
        name0 == Head(dependencyParts)
        parts0 == Tail(dependencyParts)
        scoped == startsWith(path, <<"@">>)
        name1 == IF scoped THEN name0 \o <<"/">> \o shifted(parts0) ELSE name0
        parts1 == IF scoped THEN rest(parts0) ELSE parts0
        aliased == parts1 # <<>> /\ Head(parts1) # <<>> /\ IsDigit(Head(parts1)[1])
    IN  IF aliased THEN name1 \o <<"/">> \o Head(parts1) ELSE name1

getDependencyAndVersion(s) ==
    LET nParts == Len(split(s, "@"))
    IN  IF (startsWith(s, <<"@">>) /\ nParts = 2) \/ nParts = 1
        THEN [dependency |-> s, version |-> <<"latest">>]
        ELSE LET dependency == getDependencyName(s)
             IN  [dependency |-> dependency,
                  version |-> decodeURIComponent(replaceFirst(s, dependency \o <<"@">>))]

(***************************************************************************)
(* Response packager, lines 173-184 and 235-255.                           *)
(* A mapping is a sequence of entries in insertion order; an entry is      *)
(* [path, size], size being the length of its serialized member            *)
(* "path":{"module":{"code":"..."}}.                                       *)
(***************************************************************************)
\* 5.8 * 1024 * 1024 = 6081740.8; a length is an integer, so
\* length < MAX_RES_SIZE iff length <= 6081740, length > MAX_RES_SIZE iff length > 6081740
MAX_RES_SIZE == (58 * 1024 * 1024) \div 10

RECURSIVE sumSizes(_)
sumSizes(m) == IF m = <<>> THEN 0 ELSE Head(m).size + sumSizes(Tail(m))

\* JSON.stringify(mapping).length: braces, members, commas between them
stringifyLen(m) == 2 + sumSizes(m) + (IF Len(m) = 0 THEN 0 ELSE Len(m) - 1)

RECURSIVE digits(_)
digits(n) == IF n < 10 THEN 1 ELSE 1 + digits(n \div 10)

\* JSON.stringify({status: "ok", files, droppedFileCount}).length; an undefined
\* droppedFileCount (-1 here) is left out of the text
okBodyLen(m, dropped) ==
    24 + stringifyLen(m) + (IF dropped < 0 THEN 0 ELSE 20 + digits(dropped))

\* result[path] = entry: an existing key keeps its place
put(m, e) ==
    IF \E i \in 1..Len(m) : m[i].path = e.path
    THEN [i \in 1..Len(m) |-> IF m[i].path = e.path THEN e ELSE m[i]]
    ELSE Append(m, e)

\* the while condition of dropFiles, line 179
dropFilesContinues(res, idx, fs) ==
    stringifyLen(res) <= MAX_RES_SIZE /\ idx < Len(fs)

\* the index dropFiles reads and the index it goes on with, lines 180-181
dropFilesNextIndex(idx) == idx

\* the test of dropFilesIfNeeded, lines 236-241
needsDrop(fs) == 24 + stringifyLen(fs) > MAX_RES_SIZE

(***************************************************************************)
(* Request handler, lines 199-233 and 257-296.                             *)
(***************************************************************************)
\* two requests share the event loop and /tmp
Reqs == {1, 2}

\* mutant: the denylist entry misspelt
BLACKLISTED_MISSPELT == { <<"react_scripts">> }

BLACKLISTED_DEPENDENCIES == { <<"react-scripts">> }

EntrySizes == {3500000, 7000000}

Mappings ==
    UNION { { [i \in 1..n |-> [path |-> i, size |-> f[i]]] : f \in [1..n -> EntrySizes] }
            : n \in 0..MaxFiles }

Queries ==
    { [kind |-> "missing", str |-> <<>>],
      [kind |-> "array", str |-> <<>>],
      [kind |-> "string", str |-> <<>>],
      [kind |-> "string", str |-> <<"react-scripts">>],
      [kind |-> "string", str |-> <<"react-scripts", "@", "1">>],
      [kind |-> "string", str |-> <<"lodash">>],
      [kind |-> "string", str |-> <<"lodash", "@", "1">>] }

NoQuery == [kind |-> "unset", str |-> <<>>]
NoId == <<>>
NoError == [id |-> NoId, text |-> ""]
NoResponse ==
    [statusCode |-> 200, status |-> "pending", files |-> <<>>,
     droppedFileCount |-> -1, error |-> NoError]

tokenCode(t) ==
    CASE t = "@" -> 1 [] t = "/" -> 2 [] t = "1" -> 3 [] t = "lodash" -> 4
      [] t = "latest" -> 5 [] OTHER -> 6

RECURSIVE sum(_)
\* hash-sum: a fixed function of the text onto a finite range
sum(s) == IF s = <<>> THEN 0 ELSE (31 * sum(Tail(s)) + tokenCode(Head(s))) % HashRange

\* sum(`${dependency}@${version}`) + Math.floor(Math.random() * 100000), line 208
stagingId(dep, rnd) ==
    <<sum(dep.dependency \o <<"@">> \o dep.version), rnd>>

\* lines 262-268
badQuery(q) == q.kind # "string" \/ q.str = <<>>

\* res.end of the success path, lines 276-283
okEnvelope(fs, dropped) ==
    [statusCode |-> 200, status |-> "ok", files |-> fs,
     droppedFileCount |-> dropped, error |-> NoError]

\* mutant: the catch block forgets res.statusCode = 422
errorEnvelopeKeepsStatus(err) ==
    [statusCode |-> 200, status |-> "error", files |-> <<>>,
     droppedFileCount |-> -1, error |-> err]

\* the catch block of the handler, lines 284-295
errorEnvelope(err) ==
    [statusCode |-> 422, status |-> "error", files |-> <<>>,
     droppedFileCount |-> -1, error |-> err]

\* the catch block of downloadDependencyTypings, lines 226-228
prefixed(id, text) == [id |-> id, text |-> text]

\* JavaScript runs one callback at a time: while a request is inside the
\* synchronous loop of dropFiles no other callback of the process runs
Running(r) == \A o \in Reqs \ {r} : pc[o] \notin {"while", "body"}

\* rimraf.sync in the finally block, lines 229-232
cleanupOf(r) ==
    /\ cleanupCount' = [cleanupCount EXCEPT ![r] = @ + 1]
    /\ staged' = staged \ {dependencyLocation[r]}

InitHandler ==
    /\ pc = [r \in Reqs |-> "idle"]
    /\ depQuery = [r \in Reqs |-> NoQuery]
    /\ dependencyLocation = [r \in Reqs |-> NoId]
    /\ files = [r \in Reqs |-> <<>>]
    /\ result = [r \in Reqs |-> <<>>]
    /\ index = [r \in Reqs |-> 0]
    /\ response = [r \in Reqs |-> NoResponse]
    /\ cleanupCount = [r \in Reqs |-> 0]
    /\ installerInvoked = [r \in Reqs |-> FALSE]
    /\ failure = [r \in Reqs |-> "none"]
    /\ staged = {}

InitParseIdle == depString = <<>> /\ parsed = <<>>
InitCleanIdle == rawFiles = {} /\ rootPath = <<>> /\ cleaned = <<>>
NoLinks == [dir |-> "none", file |-> "none"]

InitWalkIdle ==
    links = NoLinks /\ todo = <<>> /\ readPaths = {} /\ walkStatus = "off"

\* lines 258-268, 284-295: depQuery missing, empty or an array
HandlerBadQuery(r) ==
    /\ pc[r] = "idle" /\ Running(r)
    /\ \E q \in Queries :
        /\ badQuery(q)
        /\ depQuery' = [depQuery EXCEPT ![r] = q]
    /\ failure' = [failure EXCEPT ![r] = "query"]
    /\ response' = [response EXCEPT ![r] = errorEnvelope(prefixed(NoId, "query"))]
    /\ pc' = [pc EXCEPT ![r] = "done"]
    /\ UNCHANGED <<dependencyLocation, files, result, index, cleanupCount,
                   installerInvoked, staged>>
    /\ UNCHANGED <<pvars, cvars, wvars>>

\* lines 202-206: a denylisted name returns {} before anything is staged
HandlerBlacklisted(r) ==
    /\ pc[r] = "idle" /\ Running(r)
    /\ \E q \in Queries :
        /\ ~badQuery(q)
        /\ getDependencyAndVersion(q.str).dependency \in BLACKLISTED_DEPENDENCIES
        /\ depQuery' = [depQuery EXCEPT ![r] = q]
    /\ files' = [files EXCEPT ![r] = <<>>]
    /\ pc' = [pc EXCEPT ![r] = "package"]
    /\ UNCHANGED <<dependencyLocation, result, index, response, cleanupCount,
                   installerInvoked, failure, staged>>
    /\ UNCHANGED <<pvars, cvars, wvars>>

\* lines 208-213, 156-163: the identifier is drawn and the install command started
HandlerInstall(r) ==
    /\ pc[r] = "idle" /\ Running(r)
    /\ \E q \in Queries, rnd \in 0..(MaxRand - 1) :
        /\ ~badQuery(q)
        /\ getDependencyAndVersion(q.str).dependency \notin BLACKLISTED_DEPENDENCIES
        /\ depQuery' = [depQuery EXCEPT ![r] = q]
        /\ dependencyLocation' =
             [dependencyLocation EXCEPT ![r] = stagingId(getDependencyAndVersion(q.str), rnd)]
    /\ installerInvoked' = [installerInvoked EXCEPT ![r] = TRUE]
    /\ pc' = [pc EXCEPT ![r] = "mkdir"]
    /\ UNCHANGED <<files, result, index, response, cleanupCount, failure, staged>>
    /\ UNCHANGED <<pvars, cvars, wvars>>

\* line 162, "mkdir <id>" in the child process: succeeds only on a fresh name
ExecMkdir(r) ==
    /\ pc[r] = "mkdir"
    /\ dependencyLocation[r] \notin staged
    /\ staged' = staged \cup {dependencyLocation[r]}
    /\ pc' = [pc EXCEPT ![r] = "yarn"]
    /\ UNCHANGED <<depQuery, dependencyLocation, files, result, index, response,
                   cleanupCount, installerInvoked, failure>>
    /\ UNCHANGED <<pvars, cvars, wvars>>

\* mutant: the rejection path without the finally block
InstallFailedNoCleanup(r) ==
    /\ Running(r)
    /\ \/ pc[r] = "yarn"
       \/ pc[r] = "mkdir" /\ dependencyLocation[r] \in staged
    /\ failure' = [failure EXCEPT ![r] = "install"]
    /\ response' = [response EXCEPT ![r] =
                      errorEnvelope(prefixed(dependencyLocation[r], "install"))]
    /\ pc' = [pc EXCEPT ![r] = "done"]
    /\ UNCHANGED <<depQuery, dependencyLocation, files, result, index, installerInvoked,
                   cleanupCount, staged>>
    /\ UNCHANGED <<pvars, cvars, wvars>>

\* the command fails (mkdir on an existing name, or the installer): exec's callback
\* rejects, lines 141-144; catch and finally of lines 226-232; catch of lines 284-295
InstallFailed(r) ==
    /\ Running(r)
    /\ \/ pc[r] = "yarn"
       \/ pc[r] = "mkdir" /\ dependencyLocation[r] \in staged
    /\ failure' = [failure EXCEPT ![r] = "install"]
    /\ cleanupOf(r)
    /\ response' = [response EXCEPT ![r] =
                      errorEnvelope(prefixed(dependencyLocation[r], "install"))]
    /\ pc' = [pc EXCEPT ![r] = "done"]
    /\ UNCHANGED <<depQuery, dependencyLocation, files, result, index, installerInvoked>>
    /\ UNCHANGED <<pvars, cvars, wvars>>

\* the command succeeds and readDirectory or cleanFiles throws, line 168
CollectFailed(r) ==
    /\ Running(r)
    /\ pc[r] = "yarn"
    /\ failure' = [failure EXCEPT ![r] = "collect"]
    /\ cleanupOf(r)
    /\ response' = [response EXCEPT ![r] =
                      errorEnvelope(prefixed(dependencyLocation[r], "collect"))]
    /\ pc' = [pc EXCEPT ![r] = "done"]
    /\ UNCHANGED <<depQuery, dependencyLocation, files, result, index, installerInvoked>>
    /\ UNCHANGED <<pvars, cvars, wvars>>

\* the command succeeds, lines 165-170 and 215-225, then the finally block
ExtractOk(r) ==
    /\ Running(r)
    /\ pc[r] = "yarn"
    /\ \E m \in Mappings : files' = [files EXCEPT ![r] = m]
    /\ cleanupOf(r)
    /\ pc' = [pc EXCEPT ![r] = "package"]
    /\ UNCHANGED <<depQuery, dependencyLocation, result, index, response,
                   installerInvoked, failure>>
    /\ UNCHANGED <<pvars, cvars, wvars>>

\* dropFilesIfNeeded, lines 235-255, and either res.end (lines 276-283) or the
\* entry of dropFiles (lines 176-178)
Package(r) ==
    /\ Running(r)
    /\ pc[r] = "package"
    /\ IF needsDrop(files[r])
       THEN /\ result' = [result EXCEPT ![r] = <<>>]
            /\ index' = [index EXCEPT ![r] = 0]
            /\ pc' = [pc EXCEPT ![r] = "while"]
            /\ UNCHANGED response
       ELSE /\ response' = [response EXCEPT ![r] = okEnvelope(files[r], -1)]
            /\ pc' = [pc EXCEPT ![r] = "done"]
            /\ UNCHANGED <<result, index>>
    /\ UNCHANGED <<depQuery, dependencyLocation, files, cleanupCount,
                   installerInvoked, failure, staged>>
    /\ UNCHANGED <<pvars, cvars, wvars>>

\* JSON.stringify throws while packaging (lines 236, 278): the handler's catch
PackageFailed(r) ==
    /\ Running(r)
    /\ pc[r] = "package"
    /\ files[r] # <<>>
    /\ failure' = [failure EXCEPT ![r] = "package"]
    /\ response' = [response EXCEPT ![r] = errorEnvelope(prefixed(NoId, "package"))]
    /\ pc' = [pc EXCEPT ![r] = "done"]
    /\ UNCHANGED <<depQuery, dependencyLocation, files, result, index, cleanupCount,
                   installerInvoked, staged>>
    /\ UNCHANGED <<pvars, cvars, wvars>>

\* the while condition of dropFiles, line 179; on exit line 183 and res.end
DropFilesTest(r) ==
    /\ pc[r] = "while"
    /\ IF dropFilesContinues(result[r], index[r], files[r])
       THEN /\ pc' = [pc EXCEPT ![r] = "body"]
            /\ UNCHANGED response
       ELSE /\ response' = [response EXCEPT ![r] = okEnvelope(result[r], index[r] + 1)]
            /\ pc' = [pc EXCEPT ![r] = "done"]
    /\ UNCHANGED <<depQuery, dependencyLocation, files, result, index, cleanupCount,
                   installerInvoked, failure, staged>>
    /\ UNCHANGED <<pvars, cvars, wvars>>

\* the body of the loop, line 180
DropFilesBody(r) ==
    /\ pc[r] = "body"
    /\ result' = [result EXCEPT ![r] = put(@, files[r][index[r] + 1])]
    /\ index' = [index EXCEPT ![r] = dropFilesNextIndex(@)]
    /\ pc' = [pc EXCEPT ![r] = "while"]
    /\ UNCHANGED <<depQuery, dependencyLocation, files, response, cleanupCount,
                   installerInvoked, failure, staged>>
    /\ UNCHANGED <<pvars, cvars, wvars>>

Init == InitHandler /\ InitParseIdle /\ InitCleanIdle /\ InitWalkIdle

Next ==
    \/ \E r \in Reqs : HandlerBadQuery(r)
    \/ \E r \in Reqs : HandlerBlacklisted(r)
    \/ \E r \in Reqs : HandlerInstall(r)
    \/ \E r \in Reqs : ExecMkdir(r)
    \/ \E r \in Reqs : InstallFailed(r)
    \/ \E r \in Reqs : CollectFailed(r)
    \/ \E r \in Reqs : ExtractOk(r)
    \/ \E r \in Reqs : Package(r)
    \/ \E r \in Reqs : PackageFailed(r)
    \/ \E r \in Reqs : DropFilesTest(r)
    \/ \E r \in Reqs : DropFilesBody(r)

Spec == Init /\ [][Next]_vars

\* the engine keeps running a synchronous loop it has entered
FairSpec ==
    /\ Spec
    /\ \A r \in Reqs : WF_vars(DropFilesTest(r))
    /\ \A r \in Reqs : WF_vars(DropFilesBody(r))

(***************************************************************************)
(* Claims about the request handler (Spec, FairSpec).                      *)
(***************************************************************************)
\* C1: every success body the handler emits has a serialized length that does
\* not exceed MAX_RES_SIZE, also when the first entry alone is over it.
C1_BodyWithinCeiling ==
    \A r \in Reqs :
        response[r].status = "ok" =>
            okBodyLen(response[r].files, response[r].droppedFileCount) <= MAX_RES_SIZE

notReturned(r) ==
    { i \in 1..Len(files[r]) :
        ~ \E j \in 1..Len(response[r].files) : response[r].files[j].path = files[r][i].path }

\* C2: whenever dropFilesIfNeeded truncates, droppedFileCount equals the number
\* of entries of the input mapping that are not in the returned files mapping.
C2_DroppedCountExact ==
    \A r \in Reqs :
        (response[r].status = "ok" /\ needsDrop(files[r])) =>
            response[r].droppedFileCount = Cardinality(notReturned(r))

finished(r) == pc[r] = "done"

\* C3 (as stated): whichever terminal outcome a request reaches, cleanup of the
\* staging location has been performed exactly once.
C3_CleanupOnceAlways ==
    \A r \in Reqs : finished(r) => cleanupCount[r] = 1

\* C3 (amended): a request that generated a staging identifier has called the
\* cleanup exactly once when downloadDependencyTypings has settled, whatever the
\* outcome; a request that ended before generating one has called it zero times;
\* no request calls it twice.
C3_CleanupOncePerStaging ==
    \A r \in Reqs :
        /\ cleanupCount[r] <= 1
        /\ pc[r] \in {"idle", "mkdir", "yarn"} => cleanupCount[r] = 0
        /\ pc[r] \in {"package", "while", "body", "done"} =>
              cleanupCount[r] = (IF dependencyLocation[r] # NoId THEN 1 ELSE 0)

C3_Witness ==
    \E r \in Reqs :
        finished(r) /\ failure[r] = "install" /\ cleanupCount[r] = 1
            /\ dependencyLocation[r] # NoId

inFlight(r) == pc[r] \in {"mkdir", "yarn"}

\* C4: two requests in flight at the same time hold different staging identifiers.
C4_StagingIdsDistinct ==
    \A r1, r2 \in Reqs :
        (r1 # r2 /\ inFlight(r1) /\ inFlight(r2)) =>
            dependencyLocation[r1] # dependencyLocation[r2]

\* C5: a request that fails ends with status code 422, status "error" and an empty
\* files mapping; "error" never comes with files, "ok" never follows a failure; for
\* an installer failure the message begins with the request's staging identifier.
C5_ErrorEnvelope ==
    \A r \in Reqs :
        /\ failure[r] # "none" =>
              /\ finished(r)
              /\ response[r].statusCode = 422
              /\ response[r].status = "error"
              /\ response[r].files = <<>>
        /\ response[r].status = "error" => response[r].files = <<>>
        /\ response[r].status = "ok" => failure[r] = "none"
        /\ failure[r] = "install" =>
              /\ dependencyLocation[r] # NoId
              /\ response[r].error.id = dependencyLocation[r]

C5_Witness ==
    \E r \in Reqs :
        failure[r] = "install" /\ finished(r) /\ response[r].statusCode = 422

isReactScripts(q) ==
    /\ q.kind = "string"
    /\ \/ q.str = <<"react-scripts">>
       \/ startsWith(q.str, <<"react-scripts", "@">>)

\* C6: a query for react-scripts, with or without a version, ends with status "ok"
\* and no files; the installer is never invoked and no staging directory is made.
C6_DenylistShortCircuit ==
    \A r \in Reqs :
        isReactScripts(depQuery[r]) =>
            /\ ~installerInvoked[r]
            /\ dependencyLocation[r] = NoId
            /\ pc[r] \in {"package", "done"}
            /\ finished(r) => (response[r].status = "ok" /\ response[r].files = <<>>)

C6_Witness ==
    \E r \in Reqs :
        /\ depQuery[r].str = <<"react-scripts", "@", "1">>
        /\ finished(r) /\ response[r].status = "ok" /\ ~installerInvoked[r]

\* C9: once the full envelope is over the ceiling, the loop of dropFiles ends and
\* the request gets its response.
C9_DropFilesTerminates ==
    \A r \in Reqs : (pc[r] = "while") ~> finished(r)

(***************************************************************************)
(* SpecParse: getDependencyAndVersion applied to every bounded query.      *)
(***************************************************************************)
QueryTokens == {"a", "1", "@", "/", "%40"}

separator(t) == t \in {"@", "/"}

\* queries shaped [@scope/]name[/sub-path ...][@version ...]: a name first, no two
\* separators in a row, none at the end
wellFormed(s) ==
    /\ ~separator(s[Len(s)])
    /\ \A i \in 1..(Len(s) - 1) : ~(separator(s[i]) /\ separator(s[i + 1]))
    /\ s[1] # "/"
    /\ s[1] = "@" => (Len(s) >= 4 /\ s[3] = "/")

QueryStrings == { s \in UNION { [1..n -> QueryTokens] : n \in 1..MaxLen } : wellFormed(s) }

InitParse ==
    /\ depString \in QueryStrings
    /\ parsed = <<>>
    /\ InitHandler /\ InitCleanIdle /\ InitWalkIdle

\* the call of line 202
ParseQuery ==
    /\ parsed = <<>>
    /\ parsed' = <<getDependencyAndVersion(depString)>>
    /\ UNCHANGED <<depString, hvars, cvars, wvars>>

NextParse == ParseQuery

SpecParse == InitParse /\ [][NextParse]_vars

innerAts(s) == { i \in 2..Len(s) : s[i] = "@" }

lastInnerAt(s) == CHOOSE i \in innerAts(s) : \A j \in innerAts(s) : j <= i

\* C8: a query with an "@" at a position other than 0 is split at the last such
\* "@": the dependency is the text before it, the version the decoded text after it.
C8_SplitsAtLastAt ==
    (parsed # <<>> /\ innerAts(depString) # {}) =>
        LET k == lastInnerAt(depString)
        IN  /\ parsed[1].dependency = SubSeq(depString, 1, k - 1)
            /\ parsed[1].version =
                 decodeURIComponent(SubSeq(depString, k + 1, Len(depString)))

(***************************************************************************)
(* SpecClean: cleanFiles, lines 96-130.                                    *)
(* A path is a token sequence; a directory name that extends another one   *)
(* ("foo-bar" beside "foo") is the shorter name followed by a chunk.       *)
(***************************************************************************)
NodeModules == <<"/", "nm">>

TsPaths ==
    { NodeModules \o <<"/", "foo", "/", "index.d", ".ts">>,
      NodeModules \o <<"/", "foo", "-bar", "/", "index.d", ".ts">>,
      NodeModules \o <<"/", "foo", "/", "lib", "/", "a", ".ts">> }

ManifestPaths ==
    { NodeModules \o <<"/", "foo", "/", "package.json">>,
      NodeModules \o <<"/", "foo", "-bar", "/", "package.json">>,
      NodeModules \o <<"/", "foo", "/", "lib", "/", "package.json">> }

RootPaths ==
    { NodeModules \o <<"/", "foo">>, NodeModules \o <<"/", "foo", "-bar">> }

\* package.json texts: {"types": ...}, {"typings": ...}, {}, null, and broken JSON
ManifestCodes == {"types", "typings", "empty", "null", "malformed"}

\* a collected mapping: a set of entries with distinct paths
RawMappings ==
    { { [path |-> q, code |-> "ts"] : q \in T } \cup { [path |-> q, code |-> m[q]] : q \in M }
        : T \in SUBSET TsPaths,
          M \in SUBSET ManifestPaths,
          m \in [ManifestPaths -> ManifestCodes] }

keys(fs) == { e.path : e \in fs }

codeOf(fs, q) == (CHOOSE e \in fs : e.path = q).code

\* path.dirname: the text before the last "/"
dirname(q) ==
    LET slashes == { i \in 1..Len(q) : q[i] = "/" }
    IN  SubSeq(q, 1, (CHOOSE i \in slashes : \A j \in slashes : j <= i) - 1)

\* the try block of lines 106-113: JSON.parse or the field access may throw, and
\* the catch ignores it
declaresTypings(code) ==
    IF code = "malformed" THEN FALSE          \* JSON.parse throws
    ELSE IF code = "null" THEN FALSE          \* null.typings throws
    ELSE code \in {"types", "typings"}

\* line 116
hasTsUnder(fs, q) ==
    \E o \in keys(fs) : startsWith(o, dirname(q)) /\ endsWith(o, <<".ts">>)

\* the filter of lines 100-121
validDependency(fs, root, q) ==
    IF q = root \o <<"/", "package.json">> THEN TRUE
    ELSE IF endsWith(q, <<"/", "package.json">>)
         THEN declaresTypings(codeOf(fs, q)) \/ hasTsUnder(fs, q)
         ELSE FALSE

\* lines 123-129: the keys of newFiles
cleanFiles(fs, root) ==
    { q \in keys(fs) : endsWith(q, <<".ts">>) \/ validDependency(fs, root, q) }

InitClean ==
    /\ rawFiles \in RawMappings
    /\ rootPath \in RootPaths
    /\ cleaned = <<>>
    /\ InitHandler /\ InitParseIdle /\ InitWalkIdle

\* the call of line 168
CleanFiles ==
    /\ cleaned = <<>>
    /\ cleaned' = <<cleanFiles(rawFiles, rootPath)>>
    /\ UNCHANGED <<rawFiles, rootPath, hvars, pvars, wvars>>

NextClean == CleanFiles

SpecClean == InitClean /\ [][NextClean]_vars

nestedUnder(o, dir) == startsWith(o, dir \o <<"/">>)

\* C7: cleanFiles returns exactly every .ts path, the root package.json, and every
\* other package.json that declares typings/types or has a .ts path nested under
\* its own directory (a sibling directory with a longer name does not count).
C7_ExactSubset ==
    cleaned # <<>> =>
        cleaned[1] =
            { q \in keys(rawFiles) :
                \/ endsWith(q, <<".ts">>)
                \/ q = rootPath \o <<"/", "package.json">>
                \/ /\ endsWith(q, <<"/", "package.json">>)
                   /\ \/ codeOf(rawFiles, q) \in {"types", "typings"}
                      \/ \E o \in keys(rawFiles) :
                            endsWith(o, <<".ts">>) /\ nestedUnder(o, dirname(q)) }

(***************************************************************************)
(* SpecWalk: readDirectory, lines 53-91, on a staging tree.                *)
(* The tree: root/pkg holds files, the directories __tests__ and src, and  *)
(* up to two symbolic links the installed package ships: "link" to a       *)
(* directory and "link.ts" to a file.  The directory "out" is outside the  *)
(* root.  A path is the sequence of names below the root.                  *)
(***************************************************************************)
TYPE_ONLY_DIRECTORIES == {"src"}

BLACKLISTED_DIRECTORIES == {"__tests__", "aws-sdk"}

LinkDirTargets == {"none", "out", "root", "pkg"}

LinkFileTargets == {"none", "secret", "index"}

\* fs.readdirSync of a real directory
readdir(d) ==
    CASE d = "root" -> <<"pkg">>
      [] d = "pkg" ->
            <<"__tests__", "index.d.ts">>
            \o (IF links.dir = "none" THEN <<>> ELSE <<"link">>)
            \o (IF links.file = "none" THEN <<>> ELSE <<"link.ts">>)
            \o <<"package.json", "readme.md", "src">>
      [] d = "tests" -> <<"t.ts">>
      [] d = "src" -> <<"a.d.ts", "a.ts">>
      [] d = "out" -> <<"secret.ts">>

subdir(d, name) ==
    CASE d = "root" /\ name = "pkg" -> "pkg"
      [] d = "pkg" /\ name = "__tests__" -> "tests"
      [] d = "pkg" /\ name = "src" -> "src"
      [] OTHER -> "none"

RECURSIVE resolve(_, _, _)
\* what a path names once the OS has followed every symbolic link on it, and how
\* many links it followed
resolve(d, path, n) ==
    IF path = <<>> THEN [kind |-> "dir", dir |-> d, name |-> "", nlinks |-> n]
    ELSE LET name == Head(path)
         IN  IF d = "pkg" /\ name = "link" THEN resolve(links.dir, Tail(path), n + 1)
             ELSE IF d = "pkg" /\ name = "link.ts"
             THEN IF links.file = "secret"
                  THEN [kind |-> "file", dir |-> "out", name |-> "secret.ts", nlinks |-> n + 1]
                  ELSE [kind |-> "file", dir |-> "pkg", name |-> "index.d.ts", nlinks |-> n + 1]
             ELSE IF subdir(d, name) # "none" THEN resolve(subdir(d, name), Tail(path), n)
             ELSE [kind |-> "file", dir |-> d, name |-> name, nlinks |-> n]

\* fs.statSync(fullPath): follows links
stat(path) == resolve("root", path, 0)

\* the OS gives up (ELOOP) on a path with too many links
statThrows(path) == stat(path).nlinks > MaxSymlinks

nameEndsWith(name, ending) ==
    CASE ending = ".d.ts" -> name \in {"index.d.ts", "a.d.ts"}
      [] ending = ".ts" -> name \in {"index.d.ts", "a.d.ts", "a.ts", "t.ts", "secret.ts", "link.ts"}
      [] ending = "package.json" -> name = "package.json"

\* lines 53-68
isFileValid(path) ==
    LET isTypeOnly ==
            \E dir \in TYPE_ONLY_DIRECTORIES : \E i \in 1..(Len(path) - 1) : path[i] = dir
        requiredEnding == IF isTypeOnly THEN ".d.ts" ELSE ".ts"
        entry == path[Len(path)]
    IN  nameEndsWith(entry, requiredEnding) \/ nameEndsWith(entry, "package.json")

children(path) ==
    LET entries == readdir(stat(path).dir)
    IN  [i \in 1..Len(entries) |-> path \o <<entries[i]>>]

InitWalk ==
    /\ links \in [dir : LinkDirTargets, file : LinkFileTargets]
    /\ todo = <<>>
    /\ readPaths = {}
    /\ walkStatus = "idle"
    /\ InitHandler /\ InitParseIdle /\ InitCleanIdle

\* readDirectory(dependencyPath): line 73 on the root
WalkStart ==
    /\ walkStatus = "idle"
    /\ todo' = children(<<>>)
    /\ walkStatus' = "running"
    /\ UNCHANGED <<links, readPaths, hvars, pvars, cvars>>

\* line 78 throws: the exception leaves readDirectory
WalkThrow ==
    /\ walkStatus = "running" /\ todo # <<>>
    /\ statThrows(Head(todo))
    /\ walkStatus' = "threw"
    /\ UNCHANGED <<links, todo, readPaths, hvars, pvars, cvars>>

\* lines 80-82: a directory that is not blacklisted is walked next
WalkDirectory ==
    /\ walkStatus = "running" /\ todo # <<>>
    /\ LET fullPath == Head(todo)
       IN  /\ ~statThrows(fullPath)
           /\ stat(fullPath).kind = "dir"
           /\ fullPath[Len(fullPath)] \notin BLACKLISTED_DIRECTORIES
           /\ todo' = children(fullPath) \o Tail(todo)
    /\ UNCHANGED <<links, readPaths, walkStatus, hvars, pvars, cvars>>

\* lines 84-86: an entry that is not walked and not valid is skipped
WalkSkip ==
    /\ walkStatus = "running" /\ todo # <<>>
    /\ LET fullPath == Head(todo)
       IN  /\ ~statThrows(fullPath)
           /\ ~(stat(fullPath).kind = "dir"
                  /\ fullPath[Len(fullPath)] \notin BLACKLISTED_DIRECTORIES)
           /\ ~isFileValid(fullPath)
           /\ todo' = Tail(todo)
    /\ UNCHANGED <<links, readPaths, walkStatus, hvars, pvars, cvars>>

\* lines 88-89: fs.readFileSync(fullPath), which follows links too
WalkRead ==
    /\ walkStatus = "running" /\ todo # <<>>
    /\ LET fullPath == Head(todo)
       IN  /\ ~statThrows(fullPath)
           /\ ~(stat(fullPath).kind = "dir"
                  /\ fullPath[Len(fullPath)] \notin BLACKLISTED_DIRECTORIES)
           /\ isFileValid(fullPath)
           /\ readPaths' = readPaths \cup {fullPath}
           /\ todo' = Tail(todo)
    /\ UNCHANGED <<links, walkStatus, hvars, pvars, cvars>>

\* the outermost reduce returns
WalkDone ==
    /\ walkStatus = "running" /\ todo = <<>>
    /\ walkStatus' = "done"
    /\ UNCHANGED <<links, todo, readPaths, hvars, pvars, cvars>>

NextWalk ==
    \/ WalkStart
    \/ WalkThrow
    \/ WalkDirectory
    \/ WalkSkip
    \/ WalkRead
    \/ WalkDone

SpecWalk == InitWalk /\ [][NextWalk]_vars

outsideRoot(path) == stat(path).dir = "out"

\* C10: readDirectory never reads the content of a file that lies outside the
\* root directory, whatever symbolic links the staging tree holds.
C10_NoReadOutsideRoot ==
    \A path \in readPaths : ~outsideRoot(path)

====
